---- MODULE Spec2Model ----
(***************************************************************************)
(* mcp-neovim-server: the Session Adapter (NeovimManager, src/src/neovim.ts)*)
(* and the Request Router (the tool handlers of the McpServer router and    *)
(* of src/src/index.ts), running against a Neovim instance reached by RPC.  *)
(*                                                                          *)
(* A string is a sequence of tokens.  A token is one character ("!", ":",   *)
(* " ", "\n", "'", "x", ...) or one fixed literal of the program (a message *)
(* such as "Error executing command: ", a command word such as "pwd").      *)
(* String operations of the code (startsWith, substring, split, trim,       *)
(* replace) are computed on the token sequence.                             *)
(***************************************************************************)
EXTENDS Integers, Sequences, FiniteSets, TLC

VARIABLES
    allowShell,   \* process.env.ALLOW_SHELL_COMMANDS ("unset" when not set)
    nvim,         \* the state of the editor the server talks to
    alive,        \* the server process is running
    nreq,         \* number of requests handled so far
    last,         \* the last request: operation, arguments, result, RPCs issued
    running,      \* the handlers in flight, each with the await it stands at
    lastSender    \* the handler that sent the latest RPC to the editor (0: none yet)

vars == <<allowShell, nvim, alive, nreq, last, running, lastSender>>

----------------------------------------------------------------------------
(* Bounds of the model *)

MaxReq == 1        \* requests per behaviour
MaxFailAt == 4     \* an injected transport failure hits one of the first MaxFailAt RPCs
MaxInFlight == 2   \* handlers in flight together, where requests overlap
MaxArrivals == 2   \* requests that arrive, where requests overlap

----------------------------------------------------------------------------
(* Strings *)

NL == "\n"
SP == " "
QUOTE == "'"

IsSpace(t) == t \in {SP, NL, "\t"}

\* String.prototype.startsWith for a one-character prefix
StartsWith(s, t) == Len(s) > 0 /\ s[1] = t

\* String.prototype.substring(1)
Substring1(s) == IF Len(s) = 0 THEN s ELSE SubSeq(s, 2, Len(s))

RECURSIVE TrimStart(_)
TrimStart(s) ==
    IF Len(s) > 0 /\ IsSpace(s[1]) THEN TrimStart(Tail(s)) ELSE s

RECURSIVE TrimEnd(_)
TrimEnd(s) ==
    IF Len(s) > 0 /\ IsSpace(s[Len(s)]) THEN TrimEnd(SubSeq(s, 1, Len(s) - 1)) ELSE s

\* String.prototype.trim
Trim(s) == TrimEnd(TrimStart(s))

\* String.prototype.split('\n'): the pieces between the newlines; "" gives [""]
RECURSIVE SplitAcc(_, _, _)
SplitAcc(s, cur, acc) ==
    IF Len(s) = 0 THEN Append(acc, cur)
    ELSE IF s[1] = NL THEN SplitAcc(Tail(s), <<>>, Append(acc, cur))
    ELSE SplitAcc(Tail(s), Append(cur, s[1]), acc)

SplitLines(s) == SplitAcc(s, <<>>, <<>>)

\* String.prototype.replace(/'/g, "''")
RECURSIVE EscapeQuotes(_)
EscapeQuotes(s) ==
    IF Len(s) = 0 THEN <<>>
    ELSE IF s[1] = QUOTE THEN <<QUOTE, QUOTE>> \o EscapeQuotes(Tail(s))
    ELSE <<s[1]>> \o EscapeQuotes(Tail(s))

----------------------------------------------------------------------------
(* The editor: Neovim's buffer-line API (nvim_buf_set_lines and friends).   *)
(* A buffer always has at least one line: an empty buffer is one empty line.*)

\* normalize_index of nvim_buf_set_lines: negative indices count from the end
\* (-1 is one past the last line); an index outside 0..count is out of bounds
\* and clamped.
NormIndex(count, index) ==
    LET i == IF index < 0 THEN count + index + 1 ELSE index
    IN  IF i > count THEN [idx |-> count, oob |-> TRUE]
        ELSE IF i < 0 THEN [idx |-> 0, oob |-> TRUE]
        ELSE [idx |-> i, oob |-> FALSE]

\* nvim_buf_set_lines(buf, start, end, strict_indexing, replacement):
\* lines[start, end) (0-indexed, end exclusive) are replaced by replacement.
\* Deleting every line leaves the one empty line of an empty buffer.
BufSetLines(ls, start, end, strict, repl) ==
    LET s == NormIndex(Len(ls), start)
        e == NormIndex(Len(ls), end)
    IN  IF strict /\ (s.oob \/ e.oob) THEN [ok |-> FALSE, lines |-> ls]
        ELSE IF s.idx > e.idx THEN [ok |-> FALSE, lines |-> ls]
        ELSE LET new == SubSeq(ls, 1, s.idx) \o repl \o SubSeq(ls, e.idx + 1, Len(ls))
             IN  [ok |-> TRUE, lines |-> IF new = <<>> THEN << <<>> >> ELSE new]

\* neovim client Buffer.insert(lines, start): setLines(lines, {start, end: start, strictIndexing: true})
BufferInsert(ls, repl, start) == BufSetLines(ls, start, start, TRUE, repl)

\* neovim client Buffer.replace(lines, start):
\* setLines(lines, {start, end: start + lines.length, strictIndexing: false})
BufferReplace(ls, repl, start) == BufSetLines(ls, start, start + Len(repl), FALSE, repl)

\* neovim client Buffer.remove(start, end, strictIndexing): setLines([], {start, end, strictIndexing})
BufferRemove(ls, start, end, strict) == BufSetLines(ls, start, end, strict, <<>>)

----------------------------------------------------------------------------
(* The editor: Ex commands, expressions, cursor *)

E492 == <<"E492: Not an editor command">>
E444 == <<"E444: Cannot close last window">>
E36 == <<"E36: Not enough room">>

\* the windows the screen has room for
MaxWins == 2

\* the buffer after nvim_buf_set_lines: the cursor stays on a line of the
\* buffer and marks of lines that no longer exist are gone
WithLines(ed, ls) ==
    [ed EXCEPT !.lines = ls,
               !.cursor = <<IF @[1] > Len(ls) THEN Len(ls) ELSE @[1], @[2]>>,
               !.marks = [m \in DOMAIN @ |-> IF @[m][1] > Len(ls) THEN <<0, 0>> ELSE @[m]]]

\* the files the editor can open with :e
FileLines(path) == IF path = <<"f">> THEN << <<"F1">>, <<"F2">> >> ELSE << <<>> >>

\* what a shell command prints
ShellOutput(sh) == IF StartsWith(sh, "true") THEN <<>> ELSE <<"out", NL>>

\* the editor runs a shell command (:! or system())
RunShell(ed, sh) == [ed EXCEPT !.shells = Append(@, sh)]

\* do_one_cmd skips leading white space and colons of an Ex command
RECURSIVE SkipColons(_)
SkipColons(c) ==
    IF Len(c) > 0 /\ (IsSpace(c[1]) \/ c[1] = ":") THEN SkipColons(Tail(c)) ELSE c

\* the user's :Format command, where the editor defines one: it strips the
\* trailing white space of every line
FormatLines(ls) == [i \in 1..Len(ls) |-> TrimEnd(ls[i])]

\* one Ex command.  ok = FALSE when the command raises an error (the RPC that
\* ran it then fails); v:errmsg is set on every error, raised or silenced.
ExOne(ed, c) ==
    LET arg == TrimStart(Substring1(c))
        Ok(e, o) == [ok |-> TRUE, ed |-> e, out |-> o]
        Err(m) == [ok |-> FALSE, ed |-> [ed EXCEPT !.errmsg = m], out |-> <<>>]
    IN  IF Len(c) = 0 THEN Ok(ed, <<>>)
        ELSE IF c[1] = "!" THEN Ok(RunShell(ed, arg), <<NL>> \o ShellOutput(arg))
        ELSE IF c[1] = "pwd" THEN Ok(ed, <<NL, "/cwd">>)
        ELSE IF c[1] = "echo" THEN Ok(ed, <<NL>> \o arg)
        ELSE IF c[1] = "e" THEN Ok(WithLines([ed EXCEPT !.cursor = <<1, 0>>], FileLines(arg)),
                                   <<NL, "fileinfo">>)
        ELSE IF c[1] = "silent!" THEN Ok([ed EXCEPT !.errmsg = E492], <<>>)
        ELSE IF c[1] = "Format" /\ ed.hasFormat THEN Ok(WithLines(ed, FormatLines(ed.lines)), <<>>)
        ELSE IF c[1] \in {"split", "vsplit"} /\ arg = <<>>
        THEN IF ed.wins < MaxWins THEN Ok([ed EXCEPT !.wins = @ + 1], <<>>) ELSE Err(E36)
        ELSE IF c[1] = "only" /\ arg = <<>> THEN Ok([ed EXCEPT !.wins = 1], <<>>)
        ELSE IF c[1] = "close" /\ arg = <<>>
        THEN IF ed.wins > 1 THEN Ok([ed EXCEPT !.wins = @ - 1], <<>>) ELSE Err(E444)
        ELSE IF c[1] \in {"wincmd h", "wincmd j", "wincmd k", "wincmd l"} /\ arg = <<>>
        THEN Ok(ed, <<>>)
        ELSE IF c[1] = "mark" /\ Len(arg) = 1 /\ arg[1] \in DOMAIN ed.marks
        THEN Ok([ed EXCEPT !.marks[arg[1]] = <<ed.cursor[1], 0>>], <<>>)
        ELSE IF c = <<"normal! v">>
        THEN Ok([ed EXCEPT !.mode = IF @ = <<"v">> THEN <<"n">> ELSE <<"v">>], <<>>)
        ELSE Err(E492)

\* position of the first "|" of a command line, 0 if none (:! takes the bar
\* as part of the shell command)
RECURSIVE BarAt(_, _)
BarAt(c, i) ==
    IF i > Len(c) THEN 0 ELSE IF c[i] = "|" THEN i ELSE BarAt(c, i + 1)

\* a command line: commands separated by "|", run in order up to the first error
RECURSIVE ExExecute(_, _)
ExExecute(ed, cmd) ==
    LET c == SkipColons(cmd)
        bar == IF StartsWith(c, "!") THEN 0 ELSE BarAt(c, 1)
    IN  IF bar = 0 THEN ExOne(ed, TrimEnd(c))
        ELSE LET r1 == ExOne(ed, TrimEnd(SubSeq(c, 1, bar - 1)))
                 r2 == ExExecute(r1.ed, SubSeq(c, bar + 1, Len(c)))
             IN  IF ~r1.ok THEN r1
                 ELSE [ok |-> r2.ok, ed |-> r2.ed, out |-> r1.out \o r2.out]

\* a '...' literal of a Vim expression: '' stands for one quote, a lone quote
\* ends the literal (what follows is then not part of it)
RECURSIVE DecodeLiteral(_)
DecodeLiteral(b) ==
    IF Len(b) = 0 THEN [ok |-> TRUE, str |-> <<>>]
    ELSE IF b[1] = QUOTE THEN
        IF Len(b) >= 2 /\ b[2] = QUOTE THEN
            LET r == DecodeLiteral(SubSeq(b, 3, Len(b)))
            IN  [ok |-> r.ok, str |-> <<QUOTE>> \o r.str]
        ELSE [ok |-> FALSE, str |-> <<>>]
    ELSE LET r == DecodeLiteral(Tail(b))
         IN  [ok |-> r.ok, str |-> <<b[1]>> \o r.str]

\* nvim_eval of system('<literal>'): runs the shell command, gives its output
EvalSystem(ed, expr) ==
    LET body == SubSeq(expr, 2, Len(expr) - 1)
        lit == DecodeLiteral(body)
    IN  IF Len(expr) >= 2 /\ expr[1] = "system('" /\ expr[Len(expr)] = "')" /\ lit.ok
        THEN [ok |-> TRUE, ed |-> RunShell(ed, lit.str), val |-> ShellOutput(lit.str)]
        ELSE [ok |-> FALSE, ed |-> ed, val |-> <<>>]

\* nvim_win_set_cursor: the line must be a line of the buffer
WinSetCursor(ed, line, col) ==
    IF line >= 1 /\ line <= Len(ed.lines) /\ col >= 0
    THEN [ok |-> TRUE, ed |-> [ed EXCEPT !.cursor = <<line, col>>]]
    ELSE [ok |-> FALSE, ed |-> ed]

----------------------------------------------------------------------------
(* One request: the RPCs it issues, in order, and what may fail.            *)
(* k is the request so far: the editor, the RPCs sent (log), the            *)
(* connections opened (conn), the adapter methods entered (calls), the RPCs *)
(* that failed where the code waits for them or drops them (failed) and the *)
(* rejected promises nobody awaits (unh).  F = [from, to]: the RPCs number  *)
(* from..to of the request fail in transport (the editor went away, the     *)
(* socket closed); they do not reach the editor.                            *)

NoFail == [from |-> 1, to |-> 0]

\* the connection is lost before RPC number i and stays lost
FailFrom(n) == {NoFail} \cup {[from |-> i, to |-> 1000] : i \in 1..n}

\* the same, or RPC number i alone fails
FailChoices(n) == FailFrom(n) \cup {[from |-> i, to |-> i] : i \in 1..n}

Ctx(ed) == [nvim |-> ed, log |-> <<>>, conn |-> 0, calls |-> 0, failed |-> 0, unh |-> 0]

\* the next RPC of the request fails in transport
Down(k, F) == F.from <= Len(k.log) + 1 /\ Len(k.log) + 1 <= F.to

Sent(k, rpc) == [k EXCEPT !.log = Append(@, rpc)]

Enter(k) == [k EXCEPT !.calls = @ + 1]

Return(k, v) == [k |-> k, threw |-> FALSE, ret |-> v]

\* an awaited RPC failed: its promise rejects and the await throws
Throw(k) == [k |-> [k EXCEPT !.failed = @ + 1], threw |-> TRUE, ret |-> <<>>]

\* connect(): attach({socket}) hands back a client for the socket path
Connect(k) == [k EXCEPT !.conn = @ + 1]

\* try { body } catch (error) { return fallback }
TryCatch(c, fallback) == IF c.threw THEN Return(c.k, fallback) ELSE c

----------------------------------------------------------------------------
(* NeovimManager.getBufferContents *)

\* lines.forEach((line, index) => lineMap.set(index + 1, line))
LineMap(ls) == [n \in {index + 1 : index \in 0..(Len(ls) - 1)} |-> ls[n]]

EmptyMap == <<>>

GetBufferContentsBody(k0, F) ==
    LET k1 == Connect(k0)
        k2 == Sent(k1, "nvim_get_current_buf")
        k3 == Sent(k2, "nvim_buf_get_lines")
    IN  IF Down(k1, F) THEN Throw(k2)
        ELSE IF Down(k2, F) THEN Throw(k3)
        ELSE Return(k3, LineMap(k3.nvim.lines))

GetBufferContents(k, F) == TryCatch(GetBufferContentsBody(Enter(k), F), EmptyMap)

----------------------------------------------------------------------------
(* NeovimManager.sendCommand *)

ShellDisabledMsg ==
    <<"Shell command execution is disabled. Set ALLOW_SHELL_COMMANDS=true environment variable to enable shell commands.">>

\* a slip of ShellDisabled: shell commands are off only when the flag says 'false'
ShellDisabledOnlyIfFalse(env) == env = "false"

\* process.env.ALLOW_SHELL_COMMANDS !== 'true'
ShellDisabled(env) == env # "true"

\* the shell branch of sendCommand, with its own try/catch
SendShellCommand(k1, normalizedCommand, F) ==
    LET shellCommand == Trim(Substring1(normalizedCommand))
        expr == <<"system('">> \o EscapeQuotes(shellCommand) \o <<"')">>
        k2 == Sent(k1, "nvim_eval")
        r == EvalSystem(k1.nvim, expr)
    IN  IF Down(k1, F) \/ ~r.ok
        THEN Return([k2 EXCEPT !.failed = @ + 1],
                    <<"Error executing shell command: ", "rpc error">>)
        ELSE IF r.val # <<>> THEN Return([k2 EXCEPT !.nvim = r.ed], Trim(r.val))
        ELSE Return([k2 EXCEPT !.nvim = r.ed], <<"No output from command">>)

\* a slip of SendVimCommand: v:errmsg is not cleared before the command runs
SendVimCommandNoClear(k1, normalizedCommand, F) ==
    LET k2 == Sent(k1, "nvim_set_vvar")
        k2e == k2
        k3 == Sent(k2e, "nvim_call_function")
        r == ExExecute(k2e.nvim, normalizedCommand)
        k3e == [k3 EXCEPT !.nvim = r.ed]
        k4 == Sent(k3e, "nvim_get_vvar")
        vimerr == k4.nvim.errmsg
    IN  IF Down(k1, F) THEN Throw(k2)
        ELSE IF Down(k2e, F) THEN Throw(k3)
        ELSE IF ~r.ok THEN Throw(k3e)
        ELSE IF Down(k3e, F) THEN Throw(k4)
        ELSE IF vimerr # <<>> THEN Return(k4, <<"Error executing command: ">> \o vimerr)
        ELSE IF r.out # <<>> THEN Return(k4, Trim(r.out))
        ELSE Return(k4, <<"Command executed (no output)">>)

\* the branch for regular Vim commands: clear v:errmsg, execute, read v:errmsg
SendVimCommand(k1, normalizedCommand, F) ==
    LET k2 == Sent(k1, "nvim_set_vvar")
        k2e == [k2 EXCEPT !.nvim.errmsg = <<>>]
        k3 == Sent(k2e, "nvim_call_function")
        r == ExExecute(k2e.nvim, normalizedCommand)
        k3e == [k3 EXCEPT !.nvim = r.ed]
        k4 == Sent(k3e, "nvim_get_vvar")
        vimerr == k4.nvim.errmsg
    IN  IF Down(k1, F) THEN Throw(k2)
        ELSE IF Down(k2e, F) THEN Throw(k3)
        ELSE IF ~r.ok THEN Throw(k3e)
        ELSE IF Down(k3e, F) THEN Throw(k4)
        ELSE IF vimerr # <<>> THEN Return(k4, <<"Error executing command: ">> \o vimerr)
        ELSE IF r.out # <<>> THEN Return(k4, Trim(r.out))
        ELSE Return(k4, <<"Command executed (no output)">>)

SendCommandBody(k0, env, command, F) ==
    LET k1 == Connect(k0)
        normalizedCommand == IF StartsWith(command, ":") THEN Substring1(command) ELSE command
    IN  IF StartsWith(normalizedCommand, "!")
        THEN IF ShellDisabled(env) THEN Return(k1, ShellDisabledMsg)
             ELSE SendShellCommand(k1, normalizedCommand, F)
        ELSE SendVimCommand(k1, normalizedCommand, F)

SendCommand(k, env, command, F) ==
    TryCatch(SendCommandBody(Enter(k), env, command, F), <<"Error executing command">>)

----------------------------------------------------------------------------
(* NeovimManager.editLines *)

\* one awaited buffer.insert / replace / remove: r is what the editor answers
SetLinesStep(k, F, r) ==
    LET k2 == Sent(k, "nvim_buf_set_lines")
    IN  IF Down(k, F) \/ ~r.ok THEN [ok |-> FALSE, k |-> k2]
        ELSE [ok |-> TRUE, k |-> [k2 EXCEPT !.nvim = WithLines(@, r.lines)]]

EditReplaceAll(k2, splitByLines, F) ==
    LET k3 == Sent(k2, "nvim_buf_line_count")
        lineCount == Len(k3.nvim.lines)
        removed == SetLinesStep(k3, F, BufferRemove(k3.nvim.lines, 0, lineCount, TRUE))
        inserted == SetLinesStep(removed.k, F, BufferInsert(removed.k.nvim.lines, splitByLines, 0))
    IN  IF Down(k2, F) THEN Throw(k3)
        ELSE IF ~removed.ok THEN Throw(removed.k)
        ELSE IF ~inserted.ok THEN Throw(inserted.k)
        ELSE Return(inserted.k, <<"Buffer completely replaced">>)

\* a slip of EditReplace: the 1-indexed startLine is handed to the editor as it is
EditReplaceNoOffset(k2, splitByLines, startLine, F) ==
    LET done == SetLinesStep(k2, F, BufferReplace(k2.nvim.lines, splitByLines, startLine))
    IN  IF ~done.ok THEN Throw(done.k)
        ELSE Return(done.k, <<"Lines replaced successfully">>)

\* await buffer.replace(splitByLines, startLine - 1)
EditReplace(k2, splitByLines, startLine, F) ==
    LET done == SetLinesStep(k2, F, BufferReplace(k2.nvim.lines, splitByLines, startLine - 1))
    IN  IF ~done.ok THEN Throw(done.k)
        ELSE Return(done.k, <<"Lines replaced successfully">>)

\* a slip of EditInsert: the 1-indexed startLine is handed to the editor as it is
EditInsertNoOffset(k2, splitByLines, startLine, F) ==
    LET done == SetLinesStep(k2, F, BufferInsert(k2.nvim.lines, splitByLines, startLine))
    IN  IF ~done.ok THEN Throw(done.k)
        ELSE Return(done.k, <<"Lines inserted successfully">>)

\* await buffer.insert(splitByLines, startLine - 1)
EditInsert(k2, splitByLines, startLine, F) ==
    LET done == SetLinesStep(k2, F, BufferInsert(k2.nvim.lines, splitByLines, startLine - 1))
    IN  IF ~done.ok THEN Throw(done.k)
        ELSE Return(done.k, <<"Lines inserted successfully">>)

EditLinesBody(k0, startLine, mode, newText, F) ==
    LET k1 == Connect(k0)
        splitByLines == SplitLines(newText)
        k2 == Sent(k1, "nvim_get_current_buf")
    IN  IF Down(k1, F) THEN Throw(k2)
        ELSE IF mode = "replaceAll" THEN EditReplaceAll(k2, splitByLines, F)
        ELSE IF mode = "replace" THEN EditReplace(k2, splitByLines, startLine, F)
        ELSE IF mode = "insert" THEN EditInsert(k2, splitByLines, startLine, F)
        ELSE Return(k2, <<"Invalid mode specified">>)

EditLines(k, startLine, mode, newText, F) ==
    TryCatch(EditLinesBody(Enter(k), startLine, mode, newText, F), <<"Error editing lines">>)

----------------------------------------------------------------------------
(* The editor: expressions and positions read by the status and set by the  *)
(* mark, register and selection operations                                  *)

\* getpos("'m"): [bufnum, lnum, col, off]; all zero for a mark that is not set
GetPos(ed, m) ==
    IF ed.marks[m] = <<0, 0>> THEN <<0, 0, 0, 0>>
    ELSE <<0, ed.marks[m][1], ed.marks[m][2] + 1, 0>>

\* getreg('r'): the text of the register, '' when it has none
GetReg(ed, r) == ed.regs[r]

\* nvim_eval of setreg('<r>', '<literal>')
EvalSetreg(ed, expr) ==
    LET lit == DecodeLiteral(SubSeq(expr, 4, Len(expr) - 1))
    IN  IF Len(expr) >= 4 /\ expr[1] = "setreg('" /\ expr[3] = "', '"
           /\ expr[Len(expr)] = "')" /\ expr[2] \in DOMAIN ed.regs /\ lit.ok
        THEN [ok |-> TRUE, ed |-> [ed EXCEPT !.regs[expr[2]] = lit.str]]
        ELSE [ok |-> FALSE, ed |-> ed]

\* nvim_buf_get_lines(buf, start, end, strict_indexing)
BufGetLines(ls, start, end, strict) ==
    LET s == NormIndex(Len(ls), start)
        e == NormIndex(Len(ls), end)
    IN  IF strict /\ (s.oob \/ e.oob) THEN [ok |-> FALSE, lines |-> <<>>]
        ELSE IF s.idx >= e.idx THEN [ok |-> TRUE, lines |-> <<>>]
        ELSE [ok |-> TRUE, lines |-> SubSeq(ls, s.idx + 1, e.idx)]

\* Array.prototype.join('\n')
RECURSIVE JoinLines(_)
JoinLines(ls) ==
    IF Len(ls) = 0 THEN <<>>
    ELSE IF Len(ls) = 1 THEN ls[1]
    ELSE ls[1] \o <<NL>> \o JoinLines(Tail(ls))

----------------------------------------------------------------------------
(* NeovimManager.getNeovimStatus *)

\* the marks and registers the status probes
MarkNames == <<"a", "b">>
RegisterNames == <<"a", "\"", "0">>

\* for (const mark of ...) try { marks[mark] = getpos } catch { }
RECURSIVE ProbeMarks(_, _, _, _)
ProbeMarks(k, names, F, acc) ==
    IF Len(names) = 0 THEN [k |-> k, tab |-> acc]
    ELSE LET k2 == Sent(k, "nvim_eval")
             pos == GetPos(k.nvim, names[1])
         IN  IF Down(k, F) THEN ProbeMarks(k2, Tail(names), F, acc)
             ELSE ProbeMarks(k2, Tail(names), F, acc @@ (names[1] :> <<pos[2], pos[3]>>))

\* for (const reg of registerNames) try { registers[reg] = getreg } catch { }
RECURSIVE ProbeRegisters(_, _, _, _)
ProbeRegisters(k, names, F, acc) ==
    IF Len(names) = 0 THEN [k |-> k, tab |-> acc]
    ELSE LET k2 == Sent(k, "nvim_eval")
         IN  IF Down(k, F) THEN ProbeRegisters(k2, Tail(names), F, acc)
             ELSE ProbeRegisters(k2, Tail(names), F, acc @@ (names[1] :> GetReg(k.nvim, names[1])))

\* the RPCs a..b of a run of awaited reads fail: the first failing one throws
RECURSIVE Reads(_, _, _)
Reads(k, rpcs, F) ==
    IF Len(rpcs) = 0 THEN [k |-> k, ok |-> TRUE]
    ELSE IF Down(k, F) THEN [k |-> Sent(k, rpcs[1]), ok |-> FALSE]
    ELSE Reads(Sent(k, rpcs[1]), Tail(rpcs), F)

\* a slip of StatusSelection: the selection is closed first, so that '< and
\* '> are those of the selection in progress
StatusSelectionClosed(k, status, F) ==
    LET k1 == Sent(k, "nvim_command")
        closed == [k1 EXCEPT !.nvim = ExExecute(k.nvim, <<"normal! v">>).ed]
        r1 == Reads(closed, <<"nvim_eval", "nvim_eval">>, F)
        k3 == Sent(r1.k, "nvim_buf_get_lines")
        got == BufGetLines(closed.nvim.lines, GetPos(closed.nvim, "<")[2] - 1,
                           GetPos(closed.nvim, ">")[2], TRUE)
    IN  IF Down(k, F) THEN Throw(k1)
        ELSE IF ~r1.ok THEN Throw(r1.k)
        ELSE IF Down(r1.k, F) \/ ~got.ok THEN Throw(k3)
        ELSE Return(k3, [status EXCEPT !.visualSelection = JoinLines(got.lines)])

\* if (mode.mode.startsWith('v')): the lines between '< and '>
StatusSelection(k, status, F) ==
    LET r1 == Reads(k, <<"nvim_eval", "nvim_eval">>, F)
        start == GetPos(k.nvim, "<")
        end == GetPos(k.nvim, ">")
        k3 == Sent(r1.k, "nvim_buf_get_lines")
        got == BufGetLines(k.nvim.lines, start[2] - 1, end[2], TRUE)
    IN  IF ~r1.ok THEN Throw(r1.k)
        ELSE IF Down(r1.k, F) \/ ~got.ok THEN Throw(k3)
        ELSE Return(k3, [status EXCEPT !.visualSelection = JoinLines(got.lines)])

GetNeovimStatusBody(k0, F) ==
    LET k1 == Connect(k0)
        r1 == Reads(k1, <<"nvim_get_current_win", "nvim_win_get_cursor", "nvim_get_mode",
                          "nvim_get_current_buf", "nvim_eval", "nvim_get_current_tabpage",
                          "nvim_tabpage_get_number">>, F)
        ms == ProbeMarks(r1.k, MarkNames, F, <<>>)
        rs == ProbeRegisters(ms.k, RegisterNames, F, <<>>)
        r2 == Reads(rs.k, <<"nvim_call_function", "nvim_buf_get_name">>, F)
        ed == k0.nvim
        neovimStatus == [cursorPosition |-> ed.cursor, mode |-> ed.mode,
                         visualSelection |-> <<>>, fileName |-> <<"file">>,
                         windowLayout |-> ed.wins, currentTab |-> 1,
                         marks |-> ms.tab, registers |-> rs.tab, cwd |-> <<"/cwd">>]
    IN  IF ~r1.ok THEN Throw(r1.k)
        ELSE IF ~r2.ok THEN Throw(r2.k)
        ELSE IF StartsWith(ed.mode, "v") THEN StatusSelection(r2.k, neovimStatus, F)
        ELSE Return(r2.k, neovimStatus)

GetNeovimStatus(k, F) ==
    TryCatch(GetNeovimStatusBody(Enter(k), F), <<"Error getting Neovim status">>)

----------------------------------------------------------------------------
(* NeovimManager.getWindows, getOpenBuffers *)

\* for (const win of windows): buffer, Promise.all([width, height]), position.
\* Promise.all issues both of its RPCs before it waits for either.
RECURSIVE WindowLoop(_, _, _, _)
WindowLoop(k, w, F, acc) ==
    IF w > k.nvim.wins THEN Return(k, acc)
    ELSE LET r1 == Reads(k, <<"nvim_win_get_buf">>, F)
             kw == Sent(r1.k, "nvim_win_get_width")
             kh == Sent(kw, "nvim_win_get_height")
             r3 == Reads(kh, <<"nvim_win_get_position">>, F)
         IN  IF ~r1.ok THEN Throw(r1.k)
             ELSE IF Down(r1.k, F) \/ Down(kw, F) THEN Throw(kh)
             ELSE IF ~r3.ok THEN Throw(r3.k)
             ELSE WindowLoop(r3.k, w + 1, F, Append(acc, [id |-> 1000 + w, bufferId |-> 1]))

GetWindowsBody(k0, F) ==
    LET r1 == Reads(Connect(k0), <<"nvim_list_wins">>, F)
    IN  IF ~r1.ok THEN Throw(r1.k) ELSE WindowLoop(r1.k, 1, F, <<>>)

GetWindows(k, F) == TryCatch(GetWindowsBody(Enter(k), F), <<>>)

\* the one buffer of the editor: Promise.all of loaded and three options,
\* then the buffer of every window, then the name
GetOpenBuffersBody(k0, F) ==
    LET r1 == Reads(Connect(k0), <<"nvim_list_bufs", "nvim_list_wins">>, F)
        p1 == Sent(r1.k, "nvim_buf_is_loaded")
        p2 == Sent(p1, "nvim_buf_get_option")
        p3 == Sent(p2, "nvim_buf_get_option")
        p4 == Sent(p3, "nvim_buf_get_option")
        r2 == Reads(p4, [w \in 1..k0.nvim.wins |-> "nvim_win_get_buf"] \o <<"nvim_buf_get_name">>, F)
    IN  IF ~r1.ok THEN Throw(r1.k)
        ELSE IF Down(r1.k, F) \/ Down(p1, F) \/ Down(p2, F) \/ Down(p3, F) THEN Throw(p4)
        ELSE IF ~r2.ok THEN Throw(r2.k)
        ELSE Return(r2.k, << [number |-> 1, name |-> <<"file">>,
                              windowIds |-> [w \in 1..k0.nvim.wins |-> 1000 + w]] >>)

GetOpenBuffers(k, F) == TryCatch(GetOpenBuffersBody(Enter(k), F), <<>>)

----------------------------------------------------------------------------
(* NeovimManager.manipulateWindow, setMark, setRegister, visualSelect *)

validCommands ==
    {"split", "vsplit", "only", "close", "wincmd h", "wincmd j", "wincmd k", "wincmd l"}

\* validCommands.some(cmd => command.startsWith(cmd))
ValidWindowCommand(command) == \E cmd \in validCommands : StartsWith(command, cmd)

\* one awaited nvim.command(cmd)
CommandStep(k, F, cmd) ==
    LET k2 == Sent(k, "nvim_command")
        r == ExExecute(k.nvim, cmd)
    IN  IF Down(k, F) THEN [ok |-> FALSE, k |-> k2]
        ELSE [ok |-> r.ok, k |-> [k2 EXCEPT !.nvim = r.ed]]

ManipulateWindow(k, command, F) ==
    LET done == CommandStep(Connect(Enter(k)), F, command)
    IN  IF ~ValidWindowCommand(command) THEN Return(Enter(k), <<"Invalid window command">>)
        ELSE TryCatch(IF ~done.ok THEN Throw(done.k)
                      ELSE Return(done.k, <<"Window command executed">>),
                      <<"Error executing window command">>)

\* await (window.cursor = [line, col]): the setter sends nvim_win_set_cursor
\* and drops the promise of its answer; the await waits for the array, not
\* for the RPC.  A failure of the RPC is a rejection nobody handles.
SetCursorUnawaited(k, F, line, col) ==
    LET k2 == Sent(k, "nvim_win_set_cursor")
        r == WinSetCursor(k.nvim, line, col)
    IN  IF Down(k, F) \/ ~r.ok THEN [k2 EXCEPT !.unh = @ + 1, !.failed = @ + 1]
        ELSE [k2 EXCEPT !.nvim = r.ed]

LowerLetters ==
    {"a", "b", "c", "d", "e", "f", "g", "h", "i", "j", "k", "l", "m",
     "n", "o", "p", "q", "r", "s", "t", "u", "v", "w", "x", "y", "z"}

\* a slip of ValidMark: the pattern is not anchored at its end
ValidMarkPrefix(mark) == Len(mark) >= 1 /\ mark[1] \in LowerLetters

\* /^[a-z]$/.test(mark)
ValidMark(mark) == Len(mark) = 1 /\ mark[1] \in LowerLetters

\* a slip of SetMarkBody: the cursor is moved before the mark is set
SetMarkBodyMoveFirst(k0, mark, line, col, F) ==
    LET k1 == Connect(k0)
        k3 == Sent(k1, "nvim_get_current_win")
        marked == CommandStep(SetCursorUnawaited(k3, F, line, col), F, <<"mark", SP>> \o mark)
    IN  IF Down(k1, F) THEN Throw(k3)
        ELSE IF ~marked.ok THEN Throw(marked.k)
        ELSE Return(marked.k,
                    <<"Mark ">> \o mark \o <<" set at line ", ToString(line),
                                           ", column ", ToString(col)>>)

SetMarkBody(k0, mark, line, col, F) ==
    LET marked == CommandStep(Connect(k0), F, <<"mark", SP>> \o mark)
        k3 == Sent(marked.k, "nvim_get_current_win")
    IN  IF ~marked.ok THEN Throw(marked.k)
        ELSE IF Down(marked.k, F) THEN Throw(k3)
        ELSE Return(SetCursorUnawaited(k3, F, line, col),
                    <<"Mark ">> \o mark \o <<" set at line ", ToString(line),
                                           ", column ", ToString(col)>>)

SetMark(k, mark, line, col, F) ==
    IF ~ValidMark(mark) THEN Return(Enter(k), <<"Invalid mark name (must be a-z)">>)
    ELSE TryCatch(SetMarkBody(Enter(k), mark, line, col, F), <<"Error setting mark">>)

\* a slip of ValidRegister: the digits that name registers are accepted too
ValidRegisterOrDigit(register) ==
    Len(register) = 1 /\ register[1] \in LowerLetters \cup {"\"", "0"}

\* [...'abcdefghijklmnopqrstuvwxyz"'].includes(register)
ValidRegister(register) ==
    Len(register) = 1 /\ register[1] \in LowerLetters \cup {"\""}

\* a slip of SetregExpr: the content is embedded as it is
SetregExprRaw(register, content) ==
    <<"setreg('">> \o register \o <<"', '">> \o content \o <<"')">>

\* `setreg('${register}', '${content.replace(/'/g, "''")}')`
SetregExpr(register, content) ==
    <<"setreg('">> \o register \o <<"', '">> \o EscapeQuotes(content) \o <<"')">>

SetRegisterBody(k0, register, content, F) ==
    LET k1 == Connect(k0)
        expr == SetregExpr(register, content)
        k2 == Sent(k1, "nvim_eval")
        r == EvalSetreg(k1.nvim, expr)
    IN  IF Down(k1, F) \/ ~r.ok THEN Throw(k2)
        ELSE Return([k2 EXCEPT !.nvim = r.ed], <<"Register ">> \o register \o <<" set">>)

SetRegister(k, register, content, F) ==
    IF ~ValidRegister(register) THEN Return(Enter(k), <<"Invalid register name">>)
    ELSE TryCatch(SetRegisterBody(Enter(k), register, content, F), <<"Error setting register">>)

VisualSelectBody(k0, startLine, startCol, endLine, endCol, F) ==
    LET r1 == Reads(Connect(k0), <<"nvim_get_current_win">>, F)
        visual == CommandStep(r1.k, F, <<"normal! v">>)
    IN  IF ~r1.ok THEN Throw(r1.k)
        ELSE IF ~visual.ok THEN Throw(visual.k)
        ELSE Return(SetCursorUnawaited(SetCursorUnawaited(visual.k, F, startLine, startCol),
                                       F, endLine, endCol),
                    <<"Visual selection made">>)

VisualSelect(k, startLine, startCol, endLine, endCol, F) ==
    TryCatch(VisualSelectBody(Enter(k), startLine, startCol, endLine, endCol, F),
             <<"Error making visual selection">>)

----------------------------------------------------------------------------
(* The Request Router: the tool and resource handlers *)

\* a slip of RenderBuffer: the rows are numbered from 0
RenderBufferFromZero(m) == JoinLines([n \in DOMAIN m |-> <<ToString(n - 1), ": ">> \o m[n]])

\* Array.from(bufferContents.entries()).map(([n, t]) => `${n}: ${t}`).join("\n")
RenderBuffer(m) == JoinLines([n \in DOMAIN m |-> <<ToString(n), ": ">> \o m[n]])

\* JSON.stringify of a result
Json(v) == <<"json", v>>

\* the answer to a request whose arguments do not match the tool's schema
InvalidParams == <<"MCP error -32602: Invalid arguments">>

Reject(k) == Return(k, InvalidParams)

\* a slip of allowShellCommands: the flag is compared without regard to case
allowShellCommandsAnyCase(env) == env \in {"true", "TRUE"}

\* process.env.ALLOW_SHELL_COMMANDS === "true"
allowShellCommands(env) == env = "true"

\* vim_buffer, and the session resource
VimBuffer(k, F) ==
    LET c == GetBufferContents(k, F) IN Return(c.k, RenderBuffer(c.ret))

\* the buffers resource
BuffersResource(k, F) ==
    LET c == GetOpenBuffers(k, F) IN Return(c.k, Json(c.ret))

VimOpenNoRead(k, env, path, F) == SendCommand(k, env, <<"e", SP>> \o path, F)

VimOpen(k, env, path, F) ==
    LET c1 == SendCommand(k, env, <<"e", SP>> \o path, F)
        c2 == GetBufferContents(c1.k, F)
    IN  Return(c2.k, RenderBuffer(c2.ret))

\* vim_command, and handleCommand of index.ts
VimCommand(k, env, command, F) ==
    IF StartsWith(command, "!") /\ ~allowShellCommands(env)
    THEN Return(k, ShellDisabledMsg)
    ELSE SendCommand(k, env, command, F)

VimPwd(k, env, F) == SendCommand(k, env, <<"pwd">>, F)

VimFindFile(k, env, filename, F) ==
    LET command == <<"!", "find ./ -name ", QUOTE>> \o filename \o <<QUOTE>>
    IN  IF ~allowShellCommands(env) THEN Return(k, ShellDisabledMsg)
        ELSE SendCommand(k, env, command, F)

VimFileTree(k, env, F) ==
    LET command == <<"!", "tree . -I ", QUOTE, "node_modules|target|bin|build|.git", QUOTE>>
    IN  IF StartsWith(command, "!") /\ ~allowShellCommands(env)
        THEN Return(k, ShellDisabledMsg)
        ELSE SendCommand(k, env, command, F)

VimStatus(k, F) ==
    LET c == GetNeovimStatus(k, F) IN Return(c.k, Json(c.ret))

\* for (const e of actions) { editLines(lineOffset + e.startLine, "insert", e.content);
\*                            lineOffset += e.content.split("\n").length }
RECURSIVE InsertLoop(_, _, _, _)
InsertLoop(k, actions, lineOffset, F) ==
    IF Len(actions) = 0 THEN k
    ELSE LET e == actions[1]
             c == EditLines(k, lineOffset + e.startLine, "insert", e.content, F)
         IN  InsertLoop(c.k, Tail(actions), lineOffset + Len(SplitLines(e.content)), F)

VimInsertMultiple(k, env, actions, F) ==
    LET k1 == InsertLoop(k, actions, 0, F)
        c2 == SendCommand(k1, env, <<"Format">>, F)
        c3 == GetBufferContents(c2.k, F)
    IN  Return(c3.k, RenderBuffer(c3.ret))

Modes == {"insert", "replace", "replaceAll"}

VimEdit(k, env, startLine, mode, lines, F) ==
    IF mode \notin Modes THEN Reject(k)
    ELSE LET c1 == EditLines(k, startLine, mode, lines, F)
             c2 == SendCommand(c1.k, env, <<"Format">>, F)
             c3 == GetBufferContents(c2.k, F)
         IN  Return(c3.k, RenderBuffer(c3.ret))

\* z.enum([...]): the command is one of the eight, exactly
VimWindow(k, command, F) ==
    IF ~(\E cmd \in validCommands : command = <<cmd>>) THEN Reject(k)
    ELSE ManipulateWindow(k, command, F)

\* z.string().regex(/^[a-z]$/)
VimMark(k, mark, line, column, F) ==
    IF ~(Len(mark) = 1 /\ mark[1] \in LowerLetters) THEN Reject(k)
    ELSE SetMark(k, mark, line, column, F)

\* z.string().regex(/^[a-z\"]$/)
VimRegister(k, register, content, F) ==
    IF ~(Len(register) = 1 /\ register[1] \in LowerLetters \cup {"\""}) THEN Reject(k)
    ELSE SetRegister(k, register, content, F)

VimVisual(k, startLine, startColumn, endLine, endColumn, F) ==
    VisualSelect(k, startLine, startColumn, endLine, endColumn, F)

----------------------------------------------------------------------------
(* The state machine: one action per public adapter method (the tool cases  *)
(* of index.ts pass their arguments straight to these) and one per handler  *)
(* of the McpServer router.                                                 *)

\* the inputs the requests are drawn from
EnvValues == {"unset", "true", "TRUE"}

Line(i) == <<"L" \o ToString(i)>>

\* an empty buffer and one of seven lines
Buffers == { << <<>> >>, [i \in 1..7 |-> Line(i)] }

Commands ==
    { <<"!", "ls">>, <<":", "!", "ls">>, <<SP, "!", "ls">>, <<"!", "true">>,
      <<"pwd">>, <<":", "pwd">>, <<"echo">>, <<"wincmd h">>,
      <<"silent!", SP, "bad">>, <<"bad">> }

Texts == { <<"x", NL, "y">>, <<"x">>, <<>> }

StartLines == 0..9

ModeArgs == Modes \cup {"append"}

WindowCommands == { <<"split">>, <<"close">>, <<"only">>, <<"wincmd h">>, <<"foo">>,
                    <<"split", SP, "|", SP, "!", "ls">> }

MarkArgs == { <<"a">>, <<"b">>, <<"A">>, <<>>, <<"a", "b">>, <<"1">>, <<"a", NL>> }

RegisterArgs == { <<"a">>, <<"\"">>, <<"0">>, <<"a", "b">> }

Contents ==
    { <<"x">>, <<"i", "t", QUOTE, "s">>, <<>>, <<QUOTE>>, <<QUOTE, QUOTE, "x">>,
      <<"x", NL, QUOTE>>,
      <<"x", QUOTE, ")", SP, "|", SP, "system(", QUOTE, "ls", QUOTE, ")", SP, QUOTE>> }

Positions == { <<1, 0>>, <<2, 1>>, <<9, 0>> }

InsertActions ==
    { <<>>, << [startLine |-> 1, content |-> <<"a">>], [startLine |-> 1, content |-> <<"b">>] >>,
      << [startLine |-> 2, content |-> <<"x", NL, "y">>] >>,
      << [startLine |-> 3, content |-> <<"x">>], [startLine |-> 1, content |-> <<"y">>] >> }

\* the editor is in normal mode with the cursor at the start of the buffer,
\* or a selection is open that ends on the second character of line 2
Editors ==
    { e \in [lines : Buffers, errmsg : {<<>>, E492}, cursor : {<<1, 0>>, <<2, 1>>},
             mode : {<<"n">>, <<"v">>},
             marks : {[m \in {"a", "b", "<", ">"} |-> <<0, 0>>]},
             regs : {[r \in {"a", "\"", "0"} |-> <<>>]},
             wins : {1}, shells : {<<>>}, hasFormat : BOOLEAN] :
          /\ e.cursor[1] <= Len(e.lines)
          /\ (e.mode = <<"v">>) = (e.cursor = <<2, 1>>) }

NoRequest ==
    [op |-> "none", args |-> <<>>, ret |-> <<>>, threw |-> FALSE, log |-> <<>>,
     conn |-> 0, calls |-> 0, failed |-> 0, unh |-> 0, pre |-> <<>>]

\* the handlers that can be in flight, and a handler that is not
Ids == 1..MaxInFlight

Idle ==
    [op |-> "none", args |-> <<>>, pc |-> "idle", i |-> 0, lineOffset |-> 0,
     out |-> <<>>, sent |-> 0, cut |-> FALSE, ret |-> <<>>]

Init ==
    /\ allowShell \in EnvValues
    /\ nvim \in Editors
    /\ alive = TRUE
    /\ nreq = 0
    /\ last = NoRequest
    /\ running = [id \in Ids |-> Idle]
    /\ lastSender = 0

\* the server takes the next request
CanServe == alive /\ last.op = "none" /\ nreq < MaxReq

\* a request is served: c is how its handler completed.  A rejected promise
\* nobody handles ends the process or only prints a warning, by the runtime's
\* unhandled-rejections mode.
Served(op, args, completion) ==
    \E c \in {completion} :
        /\ nreq' = nreq + 1
        /\ nvim' = c.k.nvim
        /\ last' = [op |-> op, args |-> args, ret |-> c.ret, threw |-> c.threw,
                    log |-> c.k.log, conn |-> c.k.conn, calls |-> c.k.calls,
                    failed |-> c.k.failed, unh |-> c.k.unh, pre |-> nvim]
        /\ alive' \in (IF c.k.unh > 0 THEN BOOLEAN ELSE {TRUE})
        /\ UNCHANGED <<allowShell, running, lastSender>>

CallGetBufferContents ==
    /\ CanServe
    /\ \E F \in FailFrom(MaxFailAt) :
           Served("getBufferContents", <<>>, GetBufferContents(Ctx(nvim), F))

CallSendCommand ==
    /\ CanServe
    /\ \E command \in Commands, F \in FailFrom(MaxFailAt) :
           Served("sendCommand", <<command>>, SendCommand(Ctx(nvim), allowShell, command, F))

CallGetNeovimStatus ==
    /\ CanServe
    /\ \E F \in FailChoices(MaxFailAt + 10) :
           Served("getNeovimStatus", <<>>, GetNeovimStatus(Ctx(nvim), F))

CallEditLines ==
    /\ CanServe
    /\ \E mode \in ModeArgs, newText \in Texts, F \in FailFrom(MaxFailAt) :
       \E startLine \in (IF mode \in {"insert", "replace"} THEN StartLines ELSE {1}) :
           Served("editLines", <<startLine, mode, newText>>,
                  EditLines(Ctx(nvim), startLine, mode, newText, F))

CallGetWindows ==
    /\ CanServe
    /\ \E F \in FailFrom(MaxFailAt) :
           Served("getWindows", <<>>, GetWindows(Ctx(nvim), F))

CallManipulateWindow ==
    /\ CanServe
    /\ \E command \in WindowCommands, F \in FailFrom(MaxFailAt) :
           Served("manipulateWindow", <<command>>, ManipulateWindow(Ctx(nvim), command, F))

CallSetMark ==
    /\ CanServe
    /\ \E mark \in MarkArgs, pos \in Positions, F \in FailChoices(MaxFailAt) :
           Served("setMark", <<mark, pos[1], pos[2]>>,
                  SetMark(Ctx(nvim), mark, pos[1], pos[2], F))

CallSetRegister ==
    /\ CanServe
    /\ \E register \in RegisterArgs, content \in Contents, F \in FailFrom(MaxFailAt) :
           Served("setRegister", <<register, content>>,
                  SetRegister(Ctx(nvim), register, content, F))

CallVisualSelect ==
    /\ CanServe
    /\ \E p1 \in Positions, p2 \in Positions, F \in FailChoices(MaxFailAt) :
           Served("visualSelect", <<p1[1], p1[2], p2[1], p2[2]>>,
                  VisualSelect(Ctx(nvim), p1[1], p1[2], p2[1], p2[2], F))

CallGetOpenBuffers ==
    /\ CanServe
    /\ \E F \in FailFrom(MaxFailAt) :
           Served("getOpenBuffers", <<>>, GetOpenBuffers(Ctx(nvim), F))

ToolVimBuffer ==
    /\ CanServe
    /\ \E F \in FailFrom(MaxFailAt) : Served("vim_buffer", <<>>, VimBuffer(Ctx(nvim), F))


ResourceSession ==
    /\ CanServe
    /\ \E F \in FailFrom(MaxFailAt) : Served("nvim://session", <<>>, VimBuffer(Ctx(nvim), F))


ResourceBuffers ==
    /\ CanServe
    /\ \E F \in FailFrom(MaxFailAt) :
           Served("nvim://buffers", <<>>, BuffersResource(Ctx(nvim), F))

ToolVimOpen ==
    /\ CanServe
    /\ \E path \in {<<"f">>, <<"g">>}, F \in FailChoices(MaxFailAt) :
           Served("vim_open", <<path>>, VimOpen(Ctx(nvim), allowShell, path, F))

ToolVimCommand ==
    /\ CanServe
    /\ \E command \in Commands, F \in FailFrom(MaxFailAt) :
           Served("vim_command", <<command>>, VimCommand(Ctx(nvim), allowShell, command, F))

ToolVimPwd ==
    /\ CanServe
    /\ \E F \in FailFrom(MaxFailAt) : Served("vim_pwd", <<>>, VimPwd(Ctx(nvim), allowShell, F))


ToolVimFindFile ==
    /\ CanServe
    /\ \E filename \in {<<"f">>, <<"i", "t", QUOTE, "s">>}, F \in FailFrom(MaxFailAt) :
           Served("vim_find_file", <<filename>>, VimFindFile(Ctx(nvim), allowShell, filename, F))

ToolVimFileTree ==
    /\ CanServe
    /\ \E F \in FailFrom(MaxFailAt) :
           Served("vim_file_tree", <<>>, VimFileTree(Ctx(nvim), allowShell, F))

ToolVimStatus ==
    /\ CanServe
    /\ \E F \in FailFrom(MaxFailAt) : Served("vim_status", <<>>, VimStatus(Ctx(nvim), F))


ToolVimInsertMultiple ==
    /\ CanServe
    /\ \E actions \in InsertActions, F \in FailChoices(MaxFailAt) :
           Served("vim_insert_multiple", <<actions>>,
                  VimInsertMultiple(Ctx(nvim), allowShell, actions, F))

ToolVimEdit ==
    /\ CanServe
    /\ \E startLine \in {1, 2, 9}, mode \in ModeArgs, lines \in {<<"x", SP, NL, "y">>, <<>>},
          F \in FailChoices(MaxFailAt) :
           Served("vim_edit", <<startLine, mode, lines>>,
                  VimEdit(Ctx(nvim), allowShell, startLine, mode, lines, F))

ToolVimWindow ==
    /\ CanServe
    /\ \E command \in {<<"split">>, <<"foo">>}, F \in FailFrom(MaxFailAt) :
           Served("vim_window", <<command>>, VimWindow(Ctx(nvim), command, F))

ToolVimMark ==
    /\ CanServe
    /\ \E mark \in {<<"a">>, <<"A">>}, pos \in {<<2, 1>>, <<9, 0>>}, F \in FailFrom(MaxFailAt) :
           Served("vim_mark", <<mark, pos[1], pos[2]>>,
                  VimMark(Ctx(nvim), mark, pos[1], pos[2], F))

ToolVimRegister ==
    /\ CanServe
    /\ \E register \in {<<"a">>, <<"0">>}, content \in {<<"x">>}, F \in FailFrom(MaxFailAt) :
           Served("vim_register", <<register, content>>,
                  VimRegister(Ctx(nvim), register, content, F))

ToolVimVisual ==
    /\ CanServe
    /\ \E p1 \in {<<1, 0>>}, p2 \in {<<2, 1>>, <<9, 0>>}, F \in FailFrom(MaxFailAt) :
           Served("vim_visual", <<p1[1], p1[2], p2[1], p2[2]>>,
                  VimVisual(Ctx(nvim), p1[1], p1[2], p2[1], p2[2], F))

\* the response of the request is sent; the server is ready for the next one
Reply ==
    /\ alive
    /\ last.op # "none"
    /\ last' = NoRequest
    /\ UNCHANGED <<allowShell, nvim, alive, nreq, running, lastSender>>

Next ==
    \/ Reply
    \/ CallGetBufferContents
    \/ CallSendCommand
    \/ CallGetNeovimStatus
    \/ CallEditLines
    \/ CallGetWindows
    \/ CallManipulateWindow
    \/ CallSetMark
    \/ CallSetRegister
    \/ CallVisualSelect
    \/ CallGetOpenBuffers
    \/ ToolVimBuffer
    \/ ResourceSession
    \/ ResourceBuffers
    \/ ToolVimOpen
    \/ ToolVimCommand
    \/ ToolVimPwd
    \/ ToolVimFindFile
    \/ ToolVimFileTree
    \/ ToolVimStatus
    \/ ToolVimInsertMultiple
    \/ ToolVimEdit
    \/ ToolVimWindow
    \/ ToolVimMark
    \/ ToolVimRegister
    \/ ToolVimVisual

Spec == Init /\ [][Next]_vars

----------------------------------------------------------------------------
(* Overlapping requests.  The handlers are async functions; the server      *)
(* starts the handler of a request when the request arrives, and nothing in *)
(* index.ts or part_001 makes a request wait for the handler of an earlier  *)
(* one.  A handler runs up to its next awaited RPC, and there the handler   *)
(* of another request may run.  One action per awaited RPC of the           *)
(* vim_command and vim_insert_multiple handlers, for commands that are not  *)
(* shell commands and with the connection up.                               *)

OverlapCommands == { <<"pwd">>, <<"silent!", SP, "bad">>, <<"bad">> }

OverlapActions ==
    { << [startLine |-> 1, content |-> <<"a">>], [startLine |-> 1, content |-> <<"b">>] >> }

InitOverlap ==
    /\ Init
    /\ allowShell = "unset"

\* the handler sends an RPC: it is cut when an RPC of another handler went out
\* since its previous one
Sending(r, id) ==
    [r EXCEPT !.sent = @ + 1, !.cut = @ \/ (r.sent > 0 /\ lastSender # id)]

\* the command sendCommand runs for the handler: the tool's argument, or
\* "Format" at the end of vim_insert_multiple
CommandOf(r) ==
    IF r.op = "vim_command"
    THEN (IF StartsWith(r.args[1], ":") THEN Substring1(r.args[1]) ELSE r.args[1])
    ELSE <<"Format">>

\* sendCommand has returned result: vim_command answers with it,
\* vim_insert_multiple drops it and goes on to read the buffer
AfterCommand(r, result) ==
    IF r.op = "vim_command" THEN [r EXCEPT !.pc = "done", !.ret = result]
    ELSE [r EXCEPT !.pc = "getbuf"]

Step(id, r, ed) ==
    /\ running' = [running EXCEPT ![id] = r]
    /\ nvim' = ed
    /\ lastSender' = id
    /\ UNCHANGED <<allowShell, alive, nreq, last>>

\* a vim_command request arrives: its handler runs up to setVvar
ArriveVimCommand ==
    /\ alive
    /\ nreq < MaxArrivals
    /\ \E id \in Ids, command \in OverlapCommands :
           /\ running[id].pc = "idle"
           /\ running' = [running EXCEPT ![id] =
                  [Idle EXCEPT !.op = "vim_command", !.args = <<command>>, !.pc = "clear"]]
    /\ nreq' = nreq + 1
    /\ UNCHANGED <<allowShell, nvim, alive, last, lastSender>>

\* a vim_insert_multiple request arrives: its handler runs up to the first
\* RPC of the first editLines
ArriveVimInsertMultiple ==
    /\ alive
    /\ nreq < MaxArrivals
    /\ \E id \in Ids, actions \in OverlapActions :
           /\ running[id].pc = "idle"
           /\ running' = [running EXCEPT ![id] =
                  [Idle EXCEPT !.op = "vim_insert_multiple", !.args = <<actions>>,
                               !.i = 1, !.pc = IF actions = <<>> THEN "clear" ELSE "buffer"]]
    /\ nreq' = nreq + 1
    /\ UNCHANGED <<allowShell, nvim, alive, last, lastSender>>

\* editLines: await nvim.buffer
StepBuffer ==
    \E id \in Ids :
        /\ running[id].pc = "buffer"
        /\ Step(id, [Sending(running[id], id) EXCEPT !.pc = "insert"], nvim)

\* editLines: await buffer.insert(splitByLines, startLine - 1), with
\* startLine = lineOffset + e.startLine; its result is dropped
StepInsert ==
    \E id \in Ids :
        /\ running[id].pc = "insert"
        /\ LET r == running[id]
               actions == r.args[1]
               e == actions[r.i]
               splitByLines == SplitLines(e.content)
               res == BufferInsert(nvim.lines, splitByLines, r.lineOffset + e.startLine - 1)
           IN  Step(id,
                    [Sending(r, id) EXCEPT !.lineOffset = @ + Len(splitByLines),
                                           !.i = @ + 1,
                                           !.pc = IF r.i < Len(actions) THEN "buffer"
                                                  ELSE "clear"],
                    IF res.ok THEN WithLines(nvim, res.lines) ELSE nvim)

\* sendCommand: await nvim.setVvar('errmsg', '')
StepClear ==
    \E id \in Ids :
        /\ running[id].pc = "clear"
        /\ Step(id, [Sending(running[id], id) EXCEPT !.pc = "execute"],
                [nvim EXCEPT !.errmsg = <<>>])

\* sendCommand: await nvim.call('execute', [normalizedCommand])
StepExecute ==
    \E id \in Ids :
        /\ running[id].pc = "execute"
        /\ LET r == Sending(running[id], id)
               x == ExExecute(nvim, CommandOf(r))
           IN  Step(id,
                    IF x.ok THEN [r EXCEPT !.pc = "read", !.out = x.out]
                    ELSE AfterCommand(r, <<"Error executing command">>),
                    x.ed)

\* sendCommand: await nvim.getVvar('errmsg'), and the result
StepRead ==
    \E id \in Ids :
        /\ running[id].pc = "read"
        /\ LET r == Sending(running[id], id)
               vimerr == nvim.errmsg
           IN  Step(id,
                    AfterCommand(r, IF vimerr # <<>>
                                    THEN <<"Error executing command: ">> \o vimerr
                                    ELSE IF r.out # <<>> THEN Trim(r.out)
                                    ELSE <<"Command executed (no output)">>),
                    nvim)

\* getBufferContents: await nvim.buffer
StepGetBuf ==
    \E id \in Ids :
        /\ running[id].pc = "getbuf"
        /\ Step(id, [Sending(running[id], id) EXCEPT !.pc = "lines"], nvim)

\* getBufferContents: await buffer.lines, and the rendered answer
StepLines ==
    \E id \in Ids :
        /\ running[id].pc = "lines"
        /\ Step(id, [Sending(running[id], id) EXCEPT
                         !.pc = "done", !.ret = RenderBuffer(LineMap(nvim.lines))],
                nvim)

\* the handler has returned: the response is sent
Respond ==
    \E id \in Ids :
        /\ running[id].pc = "done"
        /\ running' = [running EXCEPT ![id] = Idle]
        /\ UNCHANGED <<allowShell, nvim, alive, nreq, last, lastSender>>

NextOverlap ==
    \/ ArriveVimCommand
    \/ ArriveVimInsertMultiple
    \/ StepBuffer
    \/ StepInsert
    \/ StepClear
    \/ StepExecute
    \/ StepRead
    \/ StepGetBuf
    \/ StepLines
    \/ Respond

SpecOverlap == InitOverlap /\ [][NextOverlap]_vars

\* ---------------------------------------------------------------------
\* Properties of the shell gate
\* ---------------------------------------------------------------------

\* what the next getBufferContents() returns when the editor answers
ReadBack == GetBufferContents(Ctx(nvim), NoFail).ret

\* the command starts with '!' or with ':!'
ShellPrefixed(c) ==
    \/ Len(c) >= 1 /\ c[1] = "!"
    \/ Len(c) >= 2 /\ c[1] = ":" /\ c[2] = "!"

ShellRpcs == {"nvim_eval", "nvim_call_function"}

\* C1: when ALLOW_SHELL_COMMANDS is not exactly 'true', sendCommand of a
\* command starting with '!' or ':!' returns the shell-disabled advisory and
\* issues no eval and no execute RPC; no shell command runs in the editor.
C1_AdapterShellGate ==
    (last.op = "sendCommand" /\ allowShell # "true" /\ ShellPrefixed(last.args[1])) =>
        /\ last.ret = ShellDisabledMsg
        /\ \A i \in DOMAIN last.log : last.log[i] \notin ShellRpcs
        /\ nvim.shells = last.pre.shells

C1_Witness ==
    /\ last.op = "sendCommand"
    /\ allowShell = "unset"
    /\ last.args[1] = <<":", "!", "ls">>
    /\ last.ret = ShellDisabledMsg

\* C2: with ALLOW_SHELL_COMMANDS not 'true', no vim_command call makes the
\* editor run a shell command, whatever the command string is.
C2_NoShellWithoutOptIn ==
    (last.op = "vim_command" /\ allowShell # "true") =>
        nvim.shells = last.pre.shells

\* C3: with shell commands not enabled, vim_find_file, vim_file_tree and
\* vim_command with a command starting with '!' answer with the
\* shell-disabled advisory and make no adapter call at all.
C3_RouterShellGate ==
    (/\ allowShell # "true"
     /\ \/ last.op \in {"vim_find_file", "vim_file_tree"}
        \/ last.op = "vim_command" /\ StartsWith(last.args[1], "!")) =>
        /\ last.ret = ShellDisabledMsg
        /\ last.calls = 0
        /\ last.conn = 0
        /\ last.log = <<>>
        /\ nvim = last.pre

C3_Witness ==
    /\ last.op = "vim_find_file"
    /\ allowShell = "TRUE"
    /\ last.ret = ShellDisabledMsg
    /\ last.calls = 0

\* ---------------------------------------------------------------------
\* Properties of sendCommand's error protocol
\* ---------------------------------------------------------------------

ErrorProtocol == <<"nvim_set_vvar", "nvim_call_function", "nvim_get_vvar">>

IsPrefixOf(s, t) == Len(s) <= Len(t) /\ s = SubSeq(t, 1, Len(s))

AdapterOps ==
    {"getBufferContents", "sendCommand", "getNeovimStatus", "editLines",
     "getWindows", "manipulateWindow", "setMark", "setRegister",
     "visualSelect", "getOpenBuffers"}

\* the documented fallback value(s) of each public adapter method
Fallback(op) ==
    CASE op = "getBufferContents" -> {EmptyMap}
      [] op = "sendCommand" -> {<<"Error executing command">>,
                                <<"Error executing shell command: ", "rpc error">>}
      [] op = "getNeovimStatus" -> {<<"Error getting Neovim status">>}
      [] op = "editLines" -> {<<"Error editing lines">>}
      [] op = "getWindows" -> {<<>>}
      [] op = "manipulateWindow" -> {<<"Error executing window command">>}
      [] op = "setMark" -> {<<"Error setting mark">>}
      [] op = "setRegister" -> {<<"Error setting register">>}
      [] op = "visualSelect" -> {<<"Error making visual selection">>}
      [] op = "getOpenBuffers" -> {<<>>}

\* C5: every public adapter method returns its documented fallback value and
\* never throws when an editor call it makes fails, the cursor-move calls of
\* setMark and visualSelect included.
C5_FallbackOnAnyFailure ==
    last.op \in AdapterOps =>
        /\ ~last.threw
        /\ last.failed > 0 => last.ret \in Fallback(last.op)

\* C6: no request ends the server: after every request the process is alive
\* and the handler has answered without throwing.
C6_NoFatalError == alive /\ ~last.threw

\* ---------------------------------------------------------------------
\* Properties of editLines
\* ---------------------------------------------------------------------

\* the last request was editLines in the given mode and every call it made
\* to the editor succeeded
Edited(mode) ==
    /\ last.op = "editLines"
    /\ last.args[2] = mode
    /\ last.failed = 0

\* the 1-indexed start lines an edit can name in the buffer it found: its
\* lines and the position just past the last one
ValidStartLine == last.args[1] \in 1..(Len(last.pre.lines) + 1)

\* C7: after editLines(startLine, 'insert', text) with a valid startLine and
\* a non-empty text of k lines, getBufferContents shows the lines of text at
\* startLine .. startLine+k-1, the lines that were before startLine where
\* they were, and the lines that were at startLine or after k places lower.
C7_InsertShiftsLines ==
    (Edited("insert") /\ ValidStartLine /\ last.args[3] # <<>>) =>
        LET startLine == last.args[1]
            text == SplitLines(last.args[3])
            k == Len(text)
            old == last.pre.lines
            m == ReadBack
        IN  /\ last.ret = <<"Lines inserted successfully">>
            /\ DOMAIN m = 1..(Len(old) + k)
            /\ \A i \in 1..k : m[startLine + i - 1] = text[i]
            /\ \A i \in 1..Len(old) :
                   m[IF i < startLine THEN i ELSE i + k] = old[i]

C7_Witness ==
    /\ Edited("insert")
    /\ last.args[1] = 3
    /\ last.args[3] = <<"x", NL, "y">>
    /\ Len(last.pre.lines) = 7
    /\ ReadBack[3] = <<"x">>
    /\ ReadBack[4] = <<"y">>
    /\ ReadBack[5] = last.pre.lines[3]

\* C8: after editLines(_, 'replaceAll', text), getBufferContents yields
\* exactly the lines of text: as many lines, in the same order, and no other.
C8_ReplaceAllExact ==
    Edited("replaceAll") =>
        LET text == SplitLines(last.args[3])
            m == ReadBack
        IN  /\ DOMAIN m = 1..Len(text)
            /\ \A i \in 1..Len(text) : m[i] = text[i]

\* C9: after editLines(startLine, 'replace', text) the buffer is the original
\* lines 1 .. startLine-1 followed by exactly the lines of text.
C9_ReplaceToEndOfBuffer ==
    (Edited("replace") /\ ValidStartLine) =>
        nvim.lines = SubSeq(last.pre.lines, 1, last.args[1] - 1)
                         \o SplitLines(last.args[3])

\* C10: after editLines(n, 'replace', text) with a text of k lines,
\* getBufferContents shows the lines of text at n .. n+k-1, the lines before
\* n unchanged and the line numbers contiguous from 1; so replacing at 5 by
\* 'x\ny' in a buffer of at least 5 lines shows 'x' at 5 and 'y' at 6.
C10_ReplaceRoundTrip ==
    (Edited("replace") /\ ValidStartLine) =>
        LET n == last.args[1]
            text == SplitLines(last.args[3])
            k == Len(text)
            old == last.pre.lines
            m == ReadBack
        IN  /\ last.ret = <<"Lines replaced successfully">>
            /\ DOMAIN m = 1..Cardinality(DOMAIN m)
            /\ Cardinality(DOMAIN m) >= n + k - 1
            /\ \A i \in 1..k : m[n + i - 1] = text[i]
            /\ \A i \in 1..(n - 1) : m[i] = old[i]

C10_Witness ==
    /\ Edited("replace")
    /\ last.args[1] = 5
    /\ last.args[3] = <<"x", NL, "y">>
    /\ Len(last.pre.lines) = 7
    /\ ReadBack[5] = <<"x">>
    /\ ReadBack[6] = <<"y">>
    /\ ReadBack[7] = last.pre.lines[7]
    /\ \A i \in 1..4 : ReadBack[i] = last.pre.lines[i]

\* ---------------------------------------------------------------------
\* Properties of vim_insert_multiple
\* ---------------------------------------------------------------------

\* the last request was vim_insert_multiple and every insert and the final
\* read succeeded: the only call that may have failed is the Format command,
\* which fails exactly where the editor defines no such command
InsertedAll ==
    /\ last.op = "vim_insert_multiple"
    /\ last.failed = (IF last.pre.hasFormat THEN 0 ELSE 1)

\* the lines of the blocks whose startLine is p, in the order of the list
RECURSIVE BlocksAt(_, _)
BlocksAt(actions, p) ==
    IF actions = <<>> THEN <<>>
    ELSE (IF actions[1].startLine = p THEN SplitLines(actions[1].content) ELSE <<>>)
             \o BlocksAt(Tail(actions), p)

\* the buffer in which every block stands before the line that had its
\* startLine in the original buffer
RECURSIVE Interleave(_, _, _)
Interleave(old, actions, p) ==
    IF p > Len(old) THEN BlocksAt(actions, p)
    ELSE BlocksAt(actions, p) \o <<old[p]>> \o Interleave(old, actions, p + 1)

AB == << [startLine |-> 1, content |-> <<"a">>], [startLine |-> 1, content |-> <<"b">>] >>

\* C11: vim_insert_multiple puts each block at the position its startLine
\* denotes in the original buffer, whatever the order of the startLine values;
\* the entries {1,'a'},{1,'b'} on an empty buffer yield the lines 'a','b'.
C11_BlocksAtOriginalPositions ==
    InsertedAll =>
        /\ nvim.lines = Interleave(last.pre.lines, last.args[1], 1)
        /\ (last.args[1] = AB /\ last.pre.lines = << <<>> >>) =>
               nvim.lines = << <<"a">>, <<"b">> >>

\* ---------------------------------------------------------------------
\* Properties of input validation
\* ---------------------------------------------------------------------

\* the command is one of the eight allow-listed commands
AllowListed(command) == \E cmd \in validCommands : command = <<cmd>>

\* C12: manipulateWindow rejects a command that is not one of the eight
\* allow-listed commands with 'Invalid window command', without a connection
\* and without an RPC; it forwards an allow-listed command as it is and
\* reports 'Window command executed'.  So the editor only ever receives one
\* of the eight commands from it.
C12_WindowAllowList ==
    last.op = "manipulateWindow" =>
        /\ ~AllowListed(last.args[1]) =>
               /\ last.ret = <<"Invalid window command">>
               /\ last.conn = 0
               /\ last.log = <<>>
               /\ nvim = last.pre
        /\ (AllowListed(last.args[1]) /\ last.failed = 0) =>
               /\ last.ret = <<"Window command executed">>
               /\ last.log = <<"nvim_command">>

\* exactly one lowercase letter
OneLowercaseLetter(name) == Len(name) = 1 /\ name[1] \in LowerLetters

\* C13: setMark and vim_mark reject every mark argument that is not exactly
\* one lowercase letter; no connection is opened, no RPC is sent and the
\* editor, its marks and cursor included, is as it was.
C13_InvalidMarkRejected ==
    (last.op \in {"setMark", "vim_mark"} /\ ~OneLowercaseLetter(last.args[1])) =>
        /\ last.ret = IF last.op = "setMark"
                      THEN <<"Invalid mark name (must be a-z)">> ELSE InvalidParams
        /\ last.conn = 0
        /\ last.log = <<>>
        /\ nvim.marks = last.pre.marks
        /\ nvim.cursor = last.pre.cursor
        /\ nvim = last.pre

C13_Witness ==
    /\ last.op = "setMark"
    /\ last.args[1] = <<"a", "b">>
    /\ last.ret = <<"Invalid mark name (must be a-z)">>
    /\ last.conn = 0

\* a register name: one lowercase letter or the double quote
RegisterName(name) == Len(name) = 1 /\ name[1] \in LowerLetters \cup {"\""}

\* C14: setRegister and vim_register reject every register argument that is
\* not one character out of a-z and '"'; no connection is opened, no RPC is
\* sent and the registers are as they were.
C14_InvalidRegisterRejected ==
    (last.op \in {"setRegister", "vim_register"} /\ ~RegisterName(last.args[1])) =>
        /\ last.ret = IF last.op = "setRegister"
                      THEN <<"Invalid register name">> ELSE InvalidParams
        /\ last.conn = 0
        /\ last.log = <<>>
        /\ nvim.regs = last.pre.regs
        /\ nvim = last.pre

C14_Witness ==
    /\ last.op = "setRegister"
    /\ last.args[1] = <<"0">>
    /\ last.ret = <<"Invalid register name">>
    /\ last.conn = 0

\* ---------------------------------------------------------------------
\* Properties of marks and of the status report
\* ---------------------------------------------------------------------

\* the last request set a mark with a valid name at a position of the
\* buffer, and every call it made to the editor succeeded
MarkSet ==
    /\ last.op \in {"setMark", "vim_mark"}
    /\ OneLowercaseLetter(last.args[1])
    /\ last.args[2] \in 1..Len(last.pre.lines)
    /\ last.failed = 0

\* C15: after a successful vim_mark(mark, line, column) on a valid position
\* the editor's mark is at (line, column) and the confirmation names these
\* coordinates.
C15_MarkAtRequestedPosition ==
    MarkSet =>
        /\ nvim.marks[last.args[1][1]] = <<last.args[2], last.args[3]>>
        /\ last.ret = <<"Mark ">> \o last.args[1]
                          \o <<" set at line ", ToString(last.args[2]),
                               ", column ", ToString(last.args[3])>>

\* the last request was getNeovimStatus and it returned a status, not the
\* error string (a probe that fails is skipped, it does not count)
StatusReturned == last.op = "getNeovimStatus" /\ last.failed = 0

\* C16: the mark and register tables of getNeovimStatus have a key only for
\* the marks and registers that are set in the editor; with no mark set the
\* mark table has no entry.
C16_OnlySetMarksAndRegisters ==
    StatusReturned =>
        /\ \A m \in DOMAIN last.ret.marks : last.pre.marks[m] # <<0, 0>>
        /\ \A r \in DOMAIN last.ret.registers : last.pre.regs[r] # <<>>
        /\ (\A m \in DOMAIN last.pre.marks : last.pre.marks[m] = <<0, 0>>) =>
               DOMAIN last.ret.marks = {}

\* ---------------------------------------------------------------------
\* Properties of the buffer read
\* ---------------------------------------------------------------------

\* the rows '<lineNumber>: <lineText>' of the lines i.. of ls, in ascending
\* order, with a newline between two rows
RECURSIVE Rows(_, _)
Rows(ls, i) ==
    IF i > Len(ls) THEN <<>>
    ELSE <<ToString(i), ": ">> \o ls[i]
             \o (IF i < Len(ls) THEN <<NL>> ELSE <<>>) \o Rows(ls, i + 1)

\* C17: the mapping of getBufferContents has exactly the keys 1..n, n the
\* number of lines of the buffer, and key i maps to line i; the session
\* resource and vim_buffer render it as the rows '<lineNumber>: <lineText>'
\* in ascending order joined by newlines.
C17_ContiguousLineNumbers ==
    /\ (last.op = "getBufferContents" /\ last.failed = 0) =>
           /\ DOMAIN last.ret = 1..Len(last.pre.lines)
           /\ \A i \in 1..Len(last.pre.lines) : last.ret[i] = last.pre.lines[i]
    /\ (last.op \in {"vim_buffer", "nvim://session"} /\ last.failed = 0) =>
           last.ret = Rows(last.pre.lines, 1)

C17_Witness ==
    /\ last.op = "nvim://session"
    /\ last.failed = 0
    /\ Len(last.pre.lines) = 7
    /\ SubSeq(last.ret, 1, 7) = <<"1", ": ", "L1", NL, "2", ": ", "L2">>

\* ---------------------------------------------------------------------
\* Properties of the processing of requests
\* ---------------------------------------------------------------------

\* C18: the RPCs of one request never interleave with the RPCs of another:
\* no handler sends an RPC after another handler's RPC went out since its
\* previous one.
C18_NoInterleaving == \A id \in Ids : ~running[id].cut

\* the confirmation editLines gives for the mode
Confirmation(mode) ==
    CASE mode = "insert" -> <<"Lines inserted successfully">>
      [] mode = "replace" -> <<"Lines replaced successfully">>
      [] mode = "replaceAll" -> <<"Buffer completely replaced">>

\* C19: the answer of vim_edit is the text editLines returned: the
\* confirmation of the mode on success, 'Error editing lines' when the edit
\* failed.
C19_EditAnswersWithConfirmation ==
    (last.op \in {"vim_edit", "editLines"} /\ last.args[2] \in Modes) =>
        /\ last.ret \in {Confirmation(last.args[2]), <<"Error editing lines">>}
        /\ last.ret = EditLines(Ctx(last.pre), last.args[1], last.args[2],
                                last.args[3], NoFail).ret
               \/ last.failed > 0

ToolOps ==
    {"vim_buffer", "vim_open", "vim_command", "vim_pwd", "vim_find_file",
     "vim_file_tree", "vim_status", "vim_insert_multiple", "vim_edit",
     "vim_window", "vim_mark", "vim_register", "vim_visual"}

\* the request does not pass the parameter schema of its tool
FailsValidation(op, args) ==
    \/ op = "vim_edit" /\ args[2] \notin Modes
    \/ op = "vim_window" /\ ~AllowListed(args[1])
    \/ op = "vim_mark" /\ ~OneLowercaseLetter(args[1])
    \/ op = "vim_register" /\ ~RegisterName(args[1])

\* the request is refused by the policy gate of its handler
StoppedByGate(op, args) ==
    /\ allowShell # "true"
    /\ \/ op \in {"vim_find_file", "vim_file_tree"}
       \/ op = "vim_command" /\ StartsWith(args[1], "!")

Accepted == last.op \in ToolOps /\ ~FailsValidation(last.op, last.args)
                                /\ ~StoppedByGate(last.op, last.args)

\* the adapter methods a handler calls on an accepted request
AdapterCalls(op, args) ==
    CASE op = "vim_open" -> 2
      [] op = "vim_edit" -> 3
      [] op = "vim_insert_multiple" -> Len(args[1]) + 2
      [] OTHER -> 1

MarkAnswered ==
    /\ last.op \in {"setMark", "vim_mark"}
    /\ OneLowercaseLetter(last.args[1])
    /\ last.ret = <<"Mark ">> \o last.args[1]
                      \o <<" set at line ", ToString(last.args[2]),
                           ", column ", ToString(last.args[3])>>

SetregEvaluated == EvalSetreg(last.pre, SetregExpr(last.args[1], last.args[2]))

\* C22: for a valid register name and any content, quotes included, the
\* expression setRegister sends is one well-formed setreg call whose literal
\* decodes to the content: evaluated, it puts exactly the content into that
\* register and changes nothing else, no shell command runs, and when the
\* call reached the editor the register holds the content and the answer is
\* 'Register <r> set'.
C22_RegisterHoldsContent ==
    (last.op \in {"setRegister", "vim_register"} /\ RegisterName(last.args[1])) =>
        /\ DecodeLiteral(EscapeQuotes(last.args[2])) = [ok |-> TRUE, str |-> last.args[2]]
        /\ SetregEvaluated.ok
        /\ SetregEvaluated.ed = [last.pre EXCEPT !.regs[last.args[1][1]] = last.args[2]]
        /\ last.log = <<"nvim_eval">>
        /\ nvim.shells = last.pre.shells
        /\ IF last.failed = 0
           THEN nvim = SetregEvaluated.ed
                /\ last.ret = <<"Register ">> \o last.args[1] \o <<" set">>
           ELSE nvim = last.pre /\ last.ret = <<"Error setting register">>

C22_Witness ==
    /\ last.op \in {"setRegister", "vim_register"} /\ last.failed = 0
    /\ last.args[1] = <<"\"">> /\ Len(last.args[2]) > 4 /\ (\E i \in DOMAIN last.args[2] : last.args[2][i] = QUOTE)
    /\ nvim.regs["\""] = last.args[2]

\* the read operations of the adapter, and the handlers that only call one
ReadOps ==
    {"getBufferContents", "getWindows", "getOpenBuffers", "getNeovimStatus",
     "vim_buffer", "vim_status", "nvim://session", "nvim://buffers"}

\* C23: a read operation leaves the editor as it was, whether it succeeds or
\* fails: buffer lines, cursor, mode, marks, registers, windows and v:errmsg
\* after the call are those before it (and so after any sequence of such
\* calls), and the server is still running.
C23_ReadsLeaveEditorUnchanged ==
    last.op \in ReadOps => (nvim = last.pre /\ alive)

C23_Witness ==
    /\ last.op = "getNeovimStatus" /\ last.failed = 0
    /\ last.pre.mode = <<"v">> /\ last.pre.cursor = <<2, 1>>
    /\ last.log[Len(last.log)] = "nvim_buf_get_lines"
    /\ nvim = last.pre

====
